---- MODULE Spec2Model ----
(***************************************************************************)
(* Model of io_EDM/writer.py: the one-shot export of a Blender scene to    *)
(* an EDM file.  write_file runs sequentially; every loop iteration and    *)
(* every call that changes host or file state is one step of the state     *)
(* machine, and a Python exception is the step ending in pc = "failed".    *)
(*                                                                         *)
(* Python values are kept as they are: lists are sequences, list and table *)
(* indices are the zero-based integers of the code (entry i of a Python    *)
(* list l is l[i+1] here), object references are the key under which the   *)
(* object is stored (a Material is referred to by its key in materialMap, *)
(* a scene object by its position in the scene).                           *)
(*                                                                         *)
(* The host is taken as write_file reads it: a material is identified by  *)
(* its name (the key of materialMap; names are unique among the materials *)
(* of a blend file), the active UV layer of a mesh holds one entry per     *)
(* corner of each tessface, and assert statements are executed.            *)
(***************************************************************************)
EXTENDS Integers, Sequences, FiniteSets

VARIABLES
  objects,        \* bpy.context.scene.objects (input, never written)
  bmats,          \* bpy material descriptors by name (input, never written)
  destPrior,      \* what the destination path held before the call
  pc,             \* position in write_file
  err,            \* the exception that ended the call, "none" otherwise
  i,              \* index of the running loop
  all_MeshObj,    \* write_file: list of mesh objects (scene positions)
  materialMap,    \* write_file: name -> Material (None while not built)
  materials,      \* write_file: list of Material references
  renderNodes,    \* write_file: list of RenderNode
  nodes,          \* write_file: list of Node
  meshes,         \* scratch meshes of this call live in bpy.data.meshes
  faceNo,         \* create_rendernode: faces already flattened
  newVertices,    \* create_rendernode local
  newIndexValues, \* create_rendernode local
  root,           \* write_file: RootNode
  bbox,           \* write_file: (bboxmin, bboxmax)
  writer,         \* BaseWriter: None, or what was written through it
  dest            \* the destination path

vars == <<objects, bmats, destPrior, pc, err, i, all_MeshObj, materialMap,
          materials, renderNodes, nodes, meshes, faceNo, newVertices,
          newIndexValues, root, bbox, writer, dest>>

inputs == <<objects, bmats, destPrior>>

\* Python's None, and references to host objects and to Materials: tagged so
\* that a reference never compares equal to an index.
None == [py |-> "None"]
ObjRef(k) == [py |-> "object", id |-> k]
MatRef(name) == [py |-> "Material", key |-> name]

(***************************************************************************)
(* Bounds of the explored inputs.                                          *)
(***************************************************************************)
MaxObjs == 2      \* objects in a scene
MaxSlots == 2     \* texture slots of a material
MaxFaces == 2     \* tessfaces of a mesh
MaxArity == 5     \* vertices of a tessface
MaxPathLen == 5   \* characters of an image file path
MaxCoord == 2     \* magnitude of a local bound-box coordinate

\* 1e38 of calculate_world_bounds, scaled to the integers of the model: it
\* stays far beyond every coordinate a scene of the model can hold.
Sentinel == 1000000

Max(a, b) == IF a >= b THEN a ELSE b
Min(a, b) == IF a <= b THEN a ELSE b

RECURSIVE SeqsUpTo(_, _)
SeqsUpTo(S, n) ==
  IF n = 0 THEN {<< >>}
  ELSE LET shorter == SeqsUpTo(S, n - 1)
       IN shorter \cup {Append(s, x) : s \in {t \in shorter : Len(t) = n - 1}, x \in S}

(***************************************************************************)
(* Strings are sequences of one-character strings.  The three Python       *)
(* string operations create_texture uses, with Python's results.           *)
(***************************************************************************)
\* str.find(c): zero-based position of the first c, -1 when there is none.
Find(s, c) ==
  IF \E k \in 1..Len(s) : s[k] = c
  THEN (CHOOSE k \in 1..Len(s) : s[k] = c /\ \A j \in 1..(k - 1) : s[j] # c) - 1
  ELSE -1

\* s[:k]: a negative k counts from the end of s.
SliceTo(s, k) ==
  LET stop == IF k < 0 THEN Max(Len(s) + k, 0) ELSE Min(k, Len(s))
  IN SubSeq(s, 1, stop)

\* os.path.basename (posixpath): what follows the last "/".
basename(p) ==
  LET slashes == {k \in 1..Len(p) : p[k] = "/"}
      last == IF slashes = {} THEN 0
              ELSE CHOOSE k \in slashes : \A j \in slashes : j <= k
  IN SubSeq(p, last + 1, Len(p))

(***************************************************************************)
(* create_texture and create_material.                                     *)
(***************************************************************************)
\* A texture slot of a material: None, or the flags and the image path.
Slot(diffuse, normal, path) ==
  [use_map_color_diffuse |-> diffuse, use_map_normal |-> normal,
   use_map_specular |-> FALSE, filepath |-> path]

texName(source) ==
  LET name == basename(source.filepath)
  IN SliceTo(name, Find(name, "."))

create_texture(source) ==
  [index |-> IF source.use_map_color_diffuse THEN 0
             ELSE IF source.use_map_normal THEN 1
             ELSE IF source.use_map_specular THEN 2
             ELSE None,
   name |-> texName(source),
   matrix |-> "identity"]

\* The list comprehension over source.texture_slots (which does not raise
\* on a list of slots, so the except branch is never entered).
diffuseTex(source) ==
  SelectSeq(source.texture_slots,
            LAMBDA x : x # None /\ x.use_map_color_diffuse)

\* create_material asserting only that a diffuse texture exists.
diffuseAssertSome(source) == Len(diffuseTex(source)) >= 1

\* The assert of create_material: TRUE when it passes.
diffuseAssert(source) == Len(diffuseTex(source)) = 1

\* What create_material returns when its assert passes.  The shading scalars
\* it copies (blending, uniforms, shadows) are not part of the model.
create_material(source) ==
  [name |-> source.name,
   index |-> None,
   vertex_format |-> <<<<"position", 4>>, <<"normal", 3>>, <<"tex0", 2>>>>,
   texture_coordinates_channels |-> <<0>> \o [k \in 1..11 |-> -1],
   textures |-> <<create_texture(diffuseTex(source)[1])>>]

(***************************************************************************)
(* calculate_world_bounds.                                                 *)
(***************************************************************************)
\* obj.matrix_world * Vector(x): the rows of the matrix applied to the point
\* and the translation column added.
Transform(m, v) ==
  [a \in 1..3 |-> m.rot[a][1] * v[1] + m.rot[a][2] * v[2] + m.rot[a][3] * v[3]
                   + m.loc[a]]

\* obj.bound_box: the 8 corners of the local box lo..hi.
bound_box(lo, hi) ==
  [k \in 1..8 |-> <<IF k > 4 THEN hi[1] ELSE lo[1],
                    IF (k - 1) % 4 >= 2 THEN hi[2] ELSE lo[2],
                    IF k % 2 = 0 THEN hi[3] ELSE lo[3]>>]

points(obj) ==
  [k \in 1..8 |-> Transform(obj.matrix_world, obj.bound_box[k])]

\* min(list) and max(list) of Python, on a non-empty list.
RECURSIVE ListMin(_)
ListMin(l) == IF Len(l) = 1 THEN l[1] ELSE Min(l[1], ListMin(Tail(l)))
RECURSIVE ListMax(_)
ListMax(l) == IF Len(l) = 1 THEN l[1] ELSE Max(l[1], ListMax(Tail(l)))

\* calculate_world_bounds skipping no object.
skippedNone(obj) == FALSE

\* The objects calculate_world_bounds passes over.
skipped(obj) == obj.type = "CAMERA"

\* The loop of calculate_world_bounds over objs[k..], from the running
\* mins and maxs.
RECURSIVE boundsLoop(_, _, _, _)
boundsLoop(objs, k, mins, maxs) ==
  IF k > Len(objs) THEN <<mins, maxs>>
  ELSE IF skipped(objs[k]) THEN boundsLoop(objs, k + 1, mins, maxs)
  ELSE LET pts == points(objs[k])
       IN boundsLoop(objs, k + 1,
            [a \in 1..3 |-> ListMin([p \in 1..8 |-> pts[p][a]] \o <<mins[a]>>)],
            [a \in 1..3 |-> ListMax([p \in 1..8 |-> pts[p][a]] \o <<maxs[a]>>)])

calculate_world_bounds(objs) ==
  boundsLoop(objs, 1, <<Sentinel, Sentinel, Sentinel>>,
             <<-Sentinel, -Sentinel, -Sentinel>>)

(***************************************************************************)
(* create_rendernode: the flattening of one tessface.                      *)
(***************************************************************************)
\* A tessface is the list of its mesh vertex indices; faces of one mesh share
\* the mesh vertices 1, 2, ...
Face(n) == [k \in 1..n |-> k]

\* uvFace.uv[c] of face k in the active UV layer.
tessface_uv(k, c) == <<c, k>>

\* newFaceIndex without the vertices already in the buffer.
newFaceIndexLocal(base, face) == [x \in 1..Len(face) |-> x - 1]

newFaceIndex(base, face) == [x \in 1..Len(face) |-> base + (x - 1)]

\* The vertices one face appends: one per face corner, in winding order.
faceVertices(k, face) ==
  [c \in 1..Len(face) |->
     [co |-> face[c], pad |-> 0, normal |-> face[c],
      uv |-> <<tessface_uv(k, c)[1], -tessface_uv(k, c)[2]>>]]

\* The triangles of a face, as the flat list of the sub-indices written.
triangles(face) ==
  IF Len(face) = 3 THEN <<0, 1, 2>> ELSE <<0, 1, 2, 2, 3, 0>>

\* The sub-indices written before newFaceIndex[i] raises IndexError (all of
\* them when it never does).
written(face) ==
  LET tri == triangles(face)
      bad == {t \in 1..Len(tri) : tri[t] >= Len(face)}
  IN IF bad = {} THEN tri
     ELSE SubSeq(tri, 1, (CHOOSE t \in bad : \A u \in bad : t <= u) - 1)

faceIndexValues(base, face) ==
  [t \in 1..Len(written(face)) |-> newFaceIndex(base, face)[written(face)[t] + 1]]

faceRaises(face) == Len(written(face)) < Len(triangles(face))

(***************************************************************************)
(* The edm package (edm/types.py, edm/basewriter.py) is not part of the    *)
(* sources at hand: its constructors and the writer follow the design      *)
(* document.                                                               *)
(***************************************************************************)
\* Node(): the implicit root entry of the node table.
Node == [py |-> "Node"]

\* RenderNode(): no parent and no material until they are assigned.
RenderNode ==
  [name |-> None, material |-> None, parent |-> None,
   vertexData |-> << >>, indexData |-> << >>]

\* BaseWriter(filename): output is buffered; the destination is not touched.
BaseWriter == << >>

\* The blocks EDMFile.write emits, in order.
fileBlocks == <<"root", "nodes", "renderNodes">>

\* writer.close(): the buffered blocks become the destination file.
closed(w) == [file |-> "edm", blocks |-> w]

(***************************************************************************)
(* The scenes explored.  A scene object is its type, the material of its   *)
(* first material slot (by name), its parent object, its mesh data and its *)
(* bounding box with the world matrix.                                     *)
(***************************************************************************)
MatNames == {"m1", "m2"}

Identity == [rot |-> <<<<1, 0, 0>>, <<0, 1, 0>>, <<0, 0, 1>>>>, loc |-> <<0, 0, 0>>]
RotZ == [rot |-> <<<<0, -1, 0>>, <<1, 0, 0>>, <<0, 0, 1>>>>, loc |-> <<3, 0, -3>>]
Mirror == [rot |-> <<<<-2, 0, 0>>, <<0, 1, 0>>, <<0, 0, 1>>>>, loc |-> <<0, -4, 0>>]

Box(a) == bound_box(<<-a, 0, -1>>, <<a, 1, a>>)

BaseData == [faces |-> <<Face(4)>>, uv |-> TRUE]
BasePath == <<"/", "a", ".", "b">>
BaseSlots == <<Slot(TRUE, FALSE, BasePath)>>
BaseMats == [n \in MatNames |-> [name |-> n, texture_slots |-> BaseSlots]]

Obj(type, material, parent, data, box, matrix) ==
  [type |-> type, material |-> material, parent |-> parent, data |-> data,
   bound_box |-> box, matrix_world |-> matrix]

BaseObj(material) == Obj("MESH", material, None, BaseData, Box(1), Identity)

\* Every parent of a scene is another object of the scene.
ParentsOk(s) ==
  \A k \in 1..Len(s) :
    s[k].parent = None \/ (s[k].parent.id \in 1..Len(s) /\ s[k].parent.id # k)

Start ==
  /\ pc = "start" /\ err = "none" /\ i = 0
  /\ all_MeshObj = << >> /\ materialMap = << >> /\ materials = << >>
  /\ renderNodes = << >> /\ nodes = << >> /\ meshes = {}
  /\ faceNo = 0 /\ newVertices = << >> /\ newIndexValues = << >>
  /\ root = None /\ bbox = None /\ writer = None
  /\ dest = destPrior

Files == {[file |-> "absent"], [file |-> "old"]}

\* Scenes varying object types, the sharing of materials and parents.
InitScene ==
  /\ objects \in
       {s \in SeqsUpTo(
                {Obj("MESH", m, p, BaseData, Box(1), Identity) :
                   m \in MatNames, p \in {None} \cup {ObjRef(k) : k \in 1..MaxObjs}}
                \cup {Obj(t, "m1", None, BaseData, Box(1), Identity) :
                        t \in {"EMPTY", "CAMERA"}},
                MaxObjs) : ParentsOk(s)}
  /\ bmats = BaseMats
  /\ destPrior \in Files
  /\ Start

\* Materials varying their texture slots.
InitMat ==
  /\ objects = <<BaseObj("m1"), BaseObj("m2")>>
  /\ bmats \in
       {[n \in MatNames |-> [name |-> n, texture_slots |-> ts[n]]] :
          ts \in [MatNames ->
                   SeqsUpTo({None, Slot(TRUE, FALSE, BasePath),
                             Slot(FALSE, TRUE, BasePath)}, MaxSlots)]}
  /\ destPrior \in Files
  /\ Start

\* Meshes varying their tessfaces and the presence of an active UV layer,
\* on the first or on the second object of the scene.
InitMesh ==
  /\ \E d \in [faces : SeqsUpTo({Face(n) : n \in 2..MaxArity}, MaxFaces),
                uv : BOOLEAN] :
       objects \in {<<Obj("MESH", "m1", None, d, Box(1), Identity), BaseObj("m1")>>,
                    <<BaseObj("m1"), Obj("MESH", "m1", None, d, Box(1), Identity)>>}
  /\ bmats = BaseMats
  /\ destPrior \in Files
  /\ Start

\* Scenes varying bounding boxes, world matrices and object types.
InitBounds ==
  /\ objects \in
       SeqsUpTo({Obj(t, "m1", None, BaseData, Box(a), m) :
                   t \in {"MESH", "CAMERA"}, a \in 0..MaxCoord,
                   m \in {Identity, RotZ, Mirror}}
                \cup {Obj("EMPTY", "m1", None, BaseData, Box(a), Identity) :
                        a \in 0..MaxCoord},
                MaxObjs)
  /\ bmats = BaseMats
  /\ destPrior = [file |-> "absent"]
  /\ Start

\* Image file paths of the diffuse texture.
InitTex ==
  /\ objects = <<BaseObj("m1")>>
  /\ \E path \in SeqsUpTo({"a", ".", "/"}, MaxPathLen) :
       bmats = [n \in MatNames |->
                  [name |-> n, texture_slots |-> <<Slot(TRUE, FALSE, path)>>]]
  /\ destPrior = [file |-> "absent"]
  /\ Start

Init == InitScene \/ InitMat \/ InitMesh \/ InitBounds \/ InitTex

(***************************************************************************)
(* write_file, step by step.                                               *)
(***************************************************************************)
raise(e) == pc' = "failed" /\ err' = e

\* d[k] = v on a dict.
DictSet(d, k, v) == [x \in DOMAIN d \cup {k} |-> IF x = k THEN v ELSE d[x]]

\* all_Materials: the first-slot material of every mesh object.
all_Materials == [k \in 1..Len(all_MeshObj) |-> objects[all_MeshObj[k]].material]

\* The list comprehension over the scene objects, from object k on.
RECURSIVE meshObjects(_, _)
meshObjects(objs, k) ==
  IF k > Len(objs) THEN << >>
  ELSE IF objs[k].type = "MESH" THEN <<k>> \o meshObjects(objs, k + 1)
  ELSE meshObjects(objs, k + 1)

CollectMeshObjects ==
  /\ pc = "start"
  /\ all_MeshObj' = meshObjects(objects, 1)
  /\ pc' = "materialMap"
  /\ i' = 0
  /\ UNCHANGED <<inputs, err, materialMap, materials, renderNodes, nodes, meshes,
                 faceNo, newVertices, newIndexValues, root, bbox, writer, dest>>

\* One entry of the dict comprehension, or its end.
BuildMaterialMap ==
  /\ pc = "materialMap"
  /\ IF i < Len(all_Materials)
     THEN LET source == bmats[all_Materials[i + 1]]
          IN IF diffuseAssert(source)
             THEN /\ materialMap' = DictSet(materialMap, source.name,
                                             create_material(source))
                  /\ i' = i + 1
                  /\ UNCHANGED <<pc, err>>
             ELSE /\ raise("AssertionError")
                  /\ UNCHANGED <<materialMap, i>>
     ELSE /\ pc' = "materials"
          /\ i' = 0
          /\ UNCHANGED <<materialMap, err>>
  /\ UNCHANGED <<inputs, all_MeshObj, materials, renderNodes, nodes, meshes,
                 faceNo, newVertices, newIndexValues, root, bbox, writer, dest>>

\* The material list kept free of repeated entries while the index still is
\* the position in all_Materials.
appendMaterialOnce(ms, name) ==
  IF \E k \in 1..Len(ms) : ms[k] = MatRef(name) THEN ms
  ELSE Append(ms, MatRef(name))

\* The list materials after one more iteration of the enumerate loop.
appendMaterial(ms, name) == Append(ms, MatRef(name))

\* One iteration of "for i, bMat in enumerate(all_Materials)", or its end.
IndexMaterials ==
  /\ pc = "materials"
  /\ IF i < Len(all_Materials)
     THEN LET name == all_Materials[i + 1]
          IN /\ materialMap' = [materialMap EXCEPT ![name].index = i]
             /\ materials' = appendMaterial(materials, name)
             /\ i' = i + 1
             /\ UNCHANGED pc
     ELSE /\ pc' = "renderNodes"
          /\ i' = 0
          /\ UNCHANGED <<materialMap, materials>>
  /\ UNCHANGED <<inputs, err, all_MeshObj, renderNodes, nodes, meshes,
                 faceNo, newVertices, newIndexValues, root, bbox, writer, dest>>

(***************************************************************************)
(* create_rendernode, called once per mesh object.                         *)
(***************************************************************************)
\* The object create_rendernode is working on.
source == all_MeshObj[i + 1]
mesh == objects[source].data

\* The call and its first lines: to_mesh allocates the scratch mesh, then the
\* active UV layer is read.  Or the end of the loop over the mesh objects.
StartRenderNode ==
  /\ pc = "renderNodes"
  /\ IF i < Len(all_MeshObj)
     THEN /\ meshes' = meshes \cup {source}
          /\ newVertices' = << >>
          /\ newIndexValues' = << >>
          /\ faceNo' = 0
          /\ IF mesh.uv
             THEN pc' = "faces" /\ UNCHANGED err
             ELSE raise("AttributeError")
          /\ UNCHANGED <<i, nodes>>
     ELSE /\ pc' = "nodes"
          /\ i' = 0
          /\ nodes' = <<Node>>
          /\ UNCHANGED <<err, meshes, newVertices, newIndexValues, faceNo>>
  /\ UNCHANGED <<inputs, all_MeshObj, materialMap, materials, renderNodes,
                 root, bbox, writer, dest>>

\* One iteration of the loop over the faces.
FlattenFace ==
  /\ pc = "faces"
  /\ faceNo < Len(mesh.faces)
  /\ LET face == mesh.faces[faceNo + 1]
     IN /\ newVertices' = newVertices \o faceVertices(faceNo + 1, face)
        /\ newIndexValues' =
             newIndexValues \o faceIndexValues(Len(newVertices), face)
        /\ IF faceRaises(face)
           THEN raise("IndexError") /\ UNCHANGED faceNo
           ELSE faceNo' = faceNo + 1 /\ UNCHANGED <<pc, err>>
  /\ UNCHANGED <<inputs, i, all_MeshObj, materialMap, materials, renderNodes,
                 nodes, meshes, root, bbox, writer, dest>>

\* The node create_rendernode returns.
newRenderNode ==
  [RenderNode EXCEPT !.name = source,
                     !.material = MatRef(objects[source].material),
                     !.vertexData = newVertices,
                     !.indexData = newIndexValues]

\* After the last face: the node is built, the scratch mesh removed and the
\* node appended to renderNodes.
FinishRenderNode ==
  /\ pc = "faces"
  /\ faceNo = Len(mesh.faces)
  /\ renderNodes' = Append(renderNodes, newRenderNode)
  /\ meshes' = meshes \ {source}
  /\ i' = i + 1
  /\ pc' = "renderNodes"
  /\ UNCHANGED <<inputs, err, all_MeshObj, materialMap, materials, nodes,
                 faceNo, newVertices, newIndexValues, root, bbox, writer, dest>>

(***************************************************************************)
(* write_file: the node list, the root node and the file.                  *)
(***************************************************************************)
\* The material index a render node referring to Material ref resolves to.
materialIndex(ref) == materialMap[ref.key].index

\* One iteration of "for rn in renderNodes", or its end.
ResolveNodes ==
  /\ pc = "nodes"
  /\ IF i < Len(renderNodes)
     THEN LET rn == renderNodes[i + 1]
          IN /\ IF rn.parent = None
                THEN /\ renderNodes' =
                          [renderNodes EXCEPT ![i + 1].parent = 0,
                             ![i + 1].material = materialIndex(rn.material)]
                     /\ UNCHANGED nodes
                ELSE /\ nodes' = Append(nodes, rn.parent)
                     /\ renderNodes' =
                          [renderNodes EXCEPT ![i + 1].parent = Len(nodes') - 1,
                             ![i + 1].material = materialIndex(rn.material)]
             /\ i' = i + 1
             /\ UNCHANGED pc
     ELSE /\ pc' = "root"
          /\ UNCHANGED <<i, nodes, renderNodes>>
  /\ UNCHANGED <<inputs, err, all_MeshObj, materialMap, materials, meshes,
                 faceNo, newVertices, newIndexValues, root, bbox, writer, dest>>

BuildRoot ==
  /\ pc = "root"
  /\ root' = [materials |-> materials]
  /\ bbox' = calculate_world_bounds(objects)
  /\ pc' = "open"
  /\ UNCHANGED <<inputs, err, i, all_MeshObj, materialMap, materials,
                 renderNodes, nodes, meshes, faceNo, newVertices,
                 newIndexValues, writer, dest>>

OpenWriter ==
  /\ pc = "open"
  /\ writer' = BaseWriter
  /\ i' = 0
  /\ pc' = "write"
  /\ UNCHANGED <<inputs, err, all_MeshObj, materialMap, materials, renderNodes,
                 nodes, meshes, faceNo, newVertices, newIndexValues, root, bbox,
                 dest>>

\* file.write(writer), one block at a time.
FileWrite ==
  /\ pc = "write"
  /\ writer' = Append(writer, fileBlocks[i + 1])
  /\ i' = i + 1
  /\ pc' = IF i + 1 = Len(fileBlocks) THEN "close" ELSE "write"
  /\ UNCHANGED <<inputs, err, all_MeshObj, materialMap, materials, renderNodes,
                 nodes, meshes, faceNo, newVertices, newIndexValues, root, bbox,
                 dest>>

\* file.write(writer) raises inside a block that closes the writer on the
\* way out.
FileWriteFailsClosing ==
  /\ pc = "write"
  /\ raise("IOError")
  /\ dest' = closed(writer)
  /\ UNCHANGED <<inputs, i, all_MeshObj, materialMap, materials, renderNodes,
                 nodes, meshes, faceNo, newVertices, newIndexValues, root, bbox,
                 writer>>

\* file.write(writer) raises: the exception leaves write_file, and
\* writer.close() is not reached.
FileWriteFails ==
  /\ pc = "write"
  /\ raise("IOError")
  /\ UNCHANGED <<inputs, i, all_MeshObj, materialMap, materials, renderNodes,
                 nodes, meshes, faceNo, newVertices, newIndexValues, root, bbox,
                 writer, dest>>

CloseWriter ==
  /\ pc = "close"
  /\ dest' = closed(writer)
  /\ pc' = "done"
  /\ UNCHANGED <<inputs, err, i, all_MeshObj, materialMap, materials,
                 renderNodes, nodes, meshes, faceNo, newVertices,
                 newIndexValues, root, bbox, writer>>

Next ==
  \/ CollectMeshObjects
  \/ BuildMaterialMap
  \/ IndexMaterials
  \/ StartRenderNode
  \/ FlattenFace
  \/ FinishRenderNode
  \/ ResolveNodes
  \/ BuildRoot
  \/ OpenWriter
  \/ FileWrite
  \/ FileWriteFails
  \/ CloseWriter

Spec == Init /\ [][Next]_vars

(***************************************************************************)
(* Properties.                                                             *)
(***************************************************************************)
\* file.write has been called (and the tables no longer change).
AtWrite == pc \in {"write", "close", "done"} \/ err = "IOError"

\* The render-node loop of write_file has resolved every node.
Assembled == pc \in {"root", "open"} \/ AtWrite

MeshObjs == {o \in 1..Len(objects) : objects[o].type = "MESH"}
UsedMaterials == {objects[o].material : o \in MeshObjs}

\* The render nodes built from object o.
NodesOf(o) == {k \in 1..Len(renderNodes) : renderNodes[k].name = o}

\* C1: the material table holds exactly one entry per distinct source
\* material, the indices assigned are 0..k-1 for k distinct materials, and
\* render nodes of objects sharing a source material resolve to one index.
C1_MaterialsDeduplicated ==
  AtWrite =>
    /\ Len(root.materials) = Cardinality(UsedMaterials)
    /\ \A m \in UsedMaterials :
         Cardinality({k \in 1..Len(root.materials) :
                        root.materials[k] = MatRef(m)}) = 1
    /\ {materialMap[m].index : m \in UsedMaterials}
         = 0..(Cardinality(UsedMaterials) - 1)
    /\ \A a, b \in 1..Len(renderNodes) :
         objects[renderNodes[a].name].material
           = objects[renderNodes[b].name].material
         => renderNodes[a].material = renderNodes[b].material

\* C2: once file.write is called, every render node's material index is a
\* position of root.materials holding the Material built from its object's
\* first-slot material, and its parent index is a position of nodes.
C2_ReferencesValid ==
  AtWrite =>
    \A k \in 1..Len(renderNodes) :
      LET r == renderNodes[k]
          bMat == objects[r.name].material
      IN /\ r.material \in 0..(Len(root.materials) - 1)
         /\ root.materials[r.material + 1] = MatRef(bMat)
         /\ materialMap[bMat]
              = [create_material(bmats[bMat]) EXCEPT !.index = r.material]
         /\ r.parent \in 0..(Len(nodes) - 1)

\* Two objects sharing a material, one of them with a parent, at the call
\* of file.write.
C2_Witness ==
  /\ pc = "write" /\ i = 0
  /\ Len(renderNodes) = 2
  /\ objects[renderNodes[1].name].material = objects[renderNodes[2].name].material
  /\ objects[renderNodes[2].name].parent # None

\* C3: a render node of an object without parent gets parent index 0; one of
\* an object with a parent gets the index of a node-table entry appended
\* for that parent, distinct for distinct parent objects.
C3_ParentsResolved ==
  Assembled =>
    /\ \A k \in 1..Len(renderNodes) :
         LET r == renderNodes[k]
             parent == objects[r.name].parent
         IN IF parent = None THEN r.parent = 0
            ELSE /\ r.parent \in 1..(Len(nodes) - 1)
                 /\ nodes[r.parent + 1] = parent
    /\ \A a, b \in 1..Len(renderNodes) :
         LET pa == objects[renderNodes[a].name].parent
             pb == objects[renderNodes[b].name].parent
         IN (pa # None /\ pb # None /\ pa # pb)
            => renderNodes[a].parent # renderNodes[b].parent

TriQuad(data) == \A f \in 1..Len(data.faces) : Len(data.faces[f]) \in {3, 4}

RECURSIVE Corners(_)
Corners(faces) == IF faces = << >> THEN 0 ELSE Len(Head(faces)) + Corners(Tail(faces))

\* A face of a triangle-and-quad mesh is flattened from a buffer of b
\* vertices into 3 vertices and (b, b+1, b+2), or 4 vertices and
\* (b, b+1, b+2, b+2, b+3, b).
C4_FaceStep ==
  (pc = "faces" /\ faceNo < Len(mesh.faces) /\ TriQuad(mesh)) =>
    LET b == Len(newVertices)
        n == Len(mesh.faces[faceNo + 1])
    IN /\ Len(newVertices') = b + n
       /\ SubSeq(newVertices', 1, b) = newVertices
       /\ n = 3 => newIndexValues' = newIndexValues \o <<b, b + 1, b + 2>>
       /\ n = 4 => newIndexValues'
                     = newIndexValues \o <<b, b + 1, b + 2, b + 2, b + 3, b>>

\* The buffers of a render node of a triangle-and-quad mesh: one vertex per
\* face corner, triangles of valid indices.
C4_Buffers ==
  \A k \in 1..Len(renderNodes) :
    LET r == renderNodes[k]
        data == objects[r.name].data
    IN TriQuad(data) =>
         /\ Len(r.vertexData) = Corners(data.faces)
         /\ Len(r.indexData) % 3 = 0
         /\ \A t \in 1..Len(r.indexData) :
              r.indexData[t] \in 0..(Len(r.vertexData) - 1)

\* C4: triangulation in create_rendernode: each triangle or quad appends its
\* own 3 or 4 vertices and the indices of one or two triangles over them, so
\* no vertex is shared, the index buffer is a multiple of 3 long and every
\* index is a position of the vertex buffer.
C4_Triangulation == [][C4_FaceStep]_vars /\ []C4_Buffers

\* A render node built from a quad followed by a triangle.
C4_Witness ==
  \E k \in 1..Len(renderNodes) :
    /\ objects[renderNodes[k].name].data.faces = <<Face(4), Face(3)>>
    /\ renderNodes[k].indexData = <<0, 1, 2, 2, 3, 0, 4, 5, 6>>

\* C5: a mesh with a face of other than 3 or 4 vertices ends the export in
\* error: no RenderNode is produced for its object and no file is written.
C5_FaceArityRejected ==
  \A o \in MeshObjs :
    ~TriQuad(objects[o].data) =>
      /\ NodesOf(o) = {}
      /\ pc # "done"
      /\ dest = destPrior

DiffuseSlots(bMat) ==
  {k \in 1..Len(bMat.texture_slots) :
     /\ bMat.texture_slots[k] # None
     /\ bMat.texture_slots[k].use_map_color_diffuse}

\* C6: with a used material of zero or of several diffuse texture slots the
\* export never gets past the building of the materials, where it fails
\* with the writer unopened and the destination untouched; and every
\* Material built has exactly one Texture, of channel 0.
C6_DiffuseValidated ==
  /\ (\E m \in UsedMaterials : Cardinality(DiffuseSlots(bmats[m])) # 1) =>
       /\ pc \in {"start", "materialMap", "failed"}
       /\ pc = "failed" => err = "AssertionError"
       /\ writer = None
       /\ dest = destPrior
  /\ \A n \in DOMAIN materialMap :
       /\ Len(materialMap[n].textures) = 1
       /\ materialMap[n].textures[1].index = 0

\* The second material has two diffuse slots: the export failed after the
\* first Material was built.
C6_Witness ==
  /\ pc = "failed" /\ err = "AssertionError"
  /\ DOMAIN materialMap = {"m1"}
  /\ Cardinality(DiffuseSlots(bmats["m2"])) = 2

C8_ScratchReleased ==
  /\ Cardinality(meshes) <= 1
  /\ pc # "faces" => meshes = {}

NonCameras == {o \in 1..Len(objects) : objects[o].type # "CAMERA"}

\* The coordinates on axis a of all world-space corners of all non-camera
\* objects.
WorldCoords(a) ==
  {Transform(objects[o].matrix_world, objects[o].bound_box[k])[a] :
     o \in NonCameras, k \in 1..8}

\* C9: with a non-camera object in the scene, calculate_world_bounds returns
\* on every axis the least and the greatest coordinate over all world-space
\* corners of the non-camera objects.
C9_WorldBounds ==
  (pc \in {"open", "write", "close", "done"} /\ NonCameras # {}) =>
    \A a \in 1..3 :
      /\ bbox[1][a] \in WorldCoords(a)
      /\ bbox[2][a] \in WorldCoords(a)
      /\ \A c \in WorldCoords(a) : bbox[1][a] <= c /\ c <= bbox[2][a]

\* A camera reaching beyond the one transformed non-camera object.
C9_Witness ==
  /\ pc = "open"
  /\ Len(objects) = 2
  /\ objects[1] = Obj("CAMERA", "m1", None, BaseData, Box(2), Mirror)
  /\ objects[2] = Obj("MESH", "m1", None, BaseData, Box(1), RotZ)
  /\ bbox = <<<<2, -1, -4>>, <<3, 1, -2>>>>

\* The file name of a path and its part before the first ".".
FileName(path) ==
  CHOOSE n \in {SubSeq(path, k, Len(path)) : k \in 1..(Len(path) + 1)} :
    /\ \A k \in 1..Len(n) : n[k] # "/"
    /\ Len(n) = Len(path) \/ path[Len(path) - Len(n)] = "/"
Stem(name) ==
  CHOOSE n \in {SubSeq(name, 1, k) : k \in 0..Len(name)} :
    /\ \A k \in 1..Len(n) : n[k] # "."
    /\ Len(n) = Len(name) \/ name[Len(n) + 1] = "."

\* C10: the name of a Texture is the file name of its image path up to its
\* first ".", and the whole file name when it has none.
C10_TextureNamed ==
  \A n \in DOMAIN materialMap :
    LET slots == bmats[n].texture_slots
        k == CHOOSE d \in DiffuseSlots(bmats[n]) : TRUE
    IN materialMap[n].textures[1].name = Stem(FileName(slots[k].filepath))

====
